---- MODULE Spec2Model ----
(***************************************************************************)
(* Feed monitor: status determination, status store and sweep.            *)
(*                                                                         *)
(* Two implementations live in the repository and both are modelled:      *)
(*   - FeedMonitorService (backend/services/feed_monitor.py), which keeps  *)
(*     its status rows through an ORM session (backend/models/database.py) *)
(*   - FeedMonitor (backend/main copy 2.py), which keeps its status rows   *)
(*     in a sqlite table with UNIQUE(feed_name, cob_date).                 *)
(*                                                                         *)
(* Dates are proleptic ordinals (ordinal 1 is a Monday), datetimes are     *)
(* records [date, minute], strings that the code parses are sequences of   *)
(* one-character strings.                                                  *)
(***************************************************************************)
EXTENDS Integers, Sequences, FiniteSets, TLC

VARIABLES
    ev,                 \* SpecEval: one evaluation [impl, config, cob_date, record_count, observed_at, status]
    feed_status,        \* FeedMonitorService: rows of table feed_status (models/database.py), in id order
    pc,                 \* FeedMonitorService: position of each caller inside check_feed_status
    frame,              \* FeedMonitorService: locals of each caller's call
    result,             \* FeedMonitorService: the dict the last call of each caller returned
    clock,              \* datetime.now(): every reading is later than the one before
    calls,              \* number of calls of check_feed_status started so far
    committed,          \* history: per (feed, COB date), the row written by the last commit
    demo_feed_status,   \* FeedMonitor: rows of table feed_status of demo.db
    demo_seq,           \* FeedMonitor: the last id the AUTOINCREMENT column gave out
    today,              \* datetime.now().date()
    sweep,              \* FeedMonitor: each thread's run of check_all_feeds
    sweeps,             \* number of sweeps started so far
    last,               \* history: the last upsert applied (SpecUpsert)
    scheduler,          \* BackgroundScheduler: "running" or "stopped"
    now_hour,           \* datetime.now().hour
    alert_config,       \* AlertingService.config: which channels are enabled
    alert_calls,        \* history: the calls of AlertingService.send_alert, in order
    attempts,           \* history: the notifications attempted on the channels, in order
    alert_logs,         \* rows of table alert_logs (models/database.py)
    summary             \* the response of the last summary query

vars == <<ev, feed_status, pc, frame, result, clock, calls, committed,
          demo_feed_status, demo_seq, today, sweep, sweeps, last,
          scheduler, now_hour, alert_config, alert_calls, attempts, alert_logs, summary>>

serviceVars == <<feed_status, pc, frame, result, calls, committed>>

monolithVars == <<demo_feed_status, demo_seq, today, sweep, sweeps>>

schedulerVars == <<scheduler, now_hour>>

alertVars == <<alert_config, alert_calls, attempts, alert_logs>>

queryVars == <<summary>>

(***************************************************************************)
(* Bounds of the model.                                                    *)
(***************************************************************************)
MaxCount == 3       \* observed record counts are 0..MaxCount
MaxMin == 3         \* SpecEval draws min_records from -1..MaxMin
MaxDate == 7        \* COB dates are the ordinals 1..MaxDate (a whole week)
MaxCalls == 3       \* calls of check_feed_status in one behaviour
MaxUpserts == 3     \* upserts applied in one behaviour of SpecUpsert
MaxSweeps == 1      \* sweeps started in one behaviour of SpecSweep
MaxTriggers == 2    \* sweeps started in one behaviour of SpecScheduler
MaxAlerts == 3      \* calls of send_alert in one behaviour of SpecAlert
MaxStored == 2      \* upserts applied in one behaviour of SpecQuery
MaxRequests == 3    \* requests answered in one behaviour of SpecRequest
SummaryDays == 1    \* days the summary looks back from today (the code has 90)

(***************************************************************************)
(* Status verdicts (class FeedStatus).                                     *)
(***************************************************************************)
RECEIVED == "received"
DELAYED == "delayed"
MISSING == "missing"
PARTIAL == "partial"
FAILED == "failed"
UNKNOWN == "unknown"

FeedStatus == {RECEIVED, DELAYED, MISSING, PARTIAL, FAILED, UNKNOWN}

(***************************************************************************)
(* Calendar and time utilities.                                            *)
(***************************************************************************)
MinutesPerDay == 1440

\* date.weekday(): Monday is 0, Sunday is 6; ordinal 1 is a Monday.
weekday(d) == (d + 6) % 7

\* DateUtils.is_business_day
is_business_day(target_date) == weekday(target_date) < 5

Digits == <<"0", "1", "2", "3", "4", "5", "6", "7", "8", "9">>

IsDigit(c) == \E i \in 1..10 : Digits[i] = c

DigitValue(c) == (CHOOSE i \in 1..10 : Digits[i] = c) - 1

\* str.split(':'): the fields between the colons, in order.
RECURSIVE split(_)
split(s) ==
    IF \A i \in 1..Len(s) : s[i] # ":"
    THEN <<s>>
    ELSE LET k == CHOOSE i \in 1..Len(s) :
                      s[i] = ":" /\ \A j \in 1..(i - 1) : s[j] # ":"
         IN  <<SubSeq(s, 1, k - 1)>> \o split(SubSeq(s, k + 1, Len(s)))

\* int(field) for an unsigned decimal field; -1 stands for ValueError.
RECURSIVE int(_)
int(f) ==
    IF Len(f) = 0 \/ \E i \in 1..Len(f) : ~IsDigit(f[i])
    THEN -1
    ELSE IF Len(f) = 1
         THEN DigitValue(f[1])
         ELSE 10 * int(SubSeq(f, 1, Len(f) - 1)) + DigitValue(f[Len(f)])

\* DateUtils.parse_time_string: time(hour, minute), or ValueError raised
\* (wrong number of fields, a field that is no number, hour or minute out
\* of range).
parse_time_string(time_str) ==
    LET parts == split(time_str)
    IN  IF Len(parts) # 2
        THEN [raised |-> TRUE, hour |-> 0, minute |-> 0]
        ELSE LET hour == int(parts[1])
                 minute == int(parts[2])
             IN  IF hour < 0 \/ minute < 0 \/ hour > 23 \/ minute > 59
                 THEN [raised |-> TRUE, hour |-> 0, minute |-> 0]
                 ELSE [raised |-> FALSE, hour |-> hour, minute |-> minute]

\* A datetime as minutes since the start of ordinal 0.
Minutes(dt) == dt.date * MinutesPerDay + dt.minute

\* DateUtils.is_within_tolerance: the window is laid around the expected
\* time of the day of actual_time; any exception gives False.
is_within_tolerance(expected_time, actual_time, tolerance_minutes) ==
    LET expected == parse_time_string(expected_time)
    IN  IF expected.raised
        THEN FALSE
        ELSE LET expected_dt == actual_time.date * MinutesPerDay
                                    + expected.hour * 60 + expected.minute
                 start_window == expected_dt - tolerance_minutes
                 end_window == expected_dt + tolerance_minutes
             IN  start_window <= Minutes(actual_time)
                 /\ Minutes(actual_time) <= end_window

(***************************************************************************)
(* Status evaluation.                                                      *)
(***************************************************************************)
\* Mutants of determine_status: the bugs the evaluator claims must detect.
\* The weekend pass is dropped: weekend days follow the count rules.
determine_status_NoWeekendPass(feed_config, cob_date, record_count) ==
    IF record_count = 0
    THEN MISSING
    ELSE IF record_count < feed_config.min_records
         THEN PARTIAL
         ELSE RECEIVED

\* The weekend pass ignores the weekend_expected flag.
determine_status_WeekendAlwaysPass(feed_config, cob_date, record_count) ==
    IF weekday(cob_date) >= 5
    THEN RECEIVED
    ELSE IF record_count = 0
         THEN MISSING
         ELSE IF record_count < feed_config.min_records
              THEN PARTIAL
              ELSE RECEIVED

\* The threshold test is inclusive (<= for <).
determine_status_ThresholdInclusive(feed_config, cob_date, record_count) ==
    IF weekday(cob_date) >= 5 /\ ~feed_config.weekend_expected
    THEN RECEIVED
    ELSE IF record_count = 0
         THEN MISSING
         ELSE IF record_count <= feed_config.min_records
              THEN PARTIAL
              ELSE RECEIVED

\* The operands of the threshold test are swapped.
determine_status_ThresholdSwapped(feed_config, cob_date, record_count) ==
    IF weekday(cob_date) >= 5 /\ ~feed_config.weekend_expected
    THEN RECEIVED
    ELSE IF record_count = 0
         THEN MISSING
         ELSE IF feed_config.min_records < record_count
              THEN PARTIAL
              ELSE RECEIVED

\* FeedMonitor.determine_status (main copy 2.py)
determine_status(feed_config, cob_date, record_count) ==
    IF weekday(cob_date) >= 5 /\ ~feed_config.weekend_expected
    THEN (IF record_count = 0 THEN RECEIVED ELSE RECEIVED)
    ELSE IF record_count = 0
         THEN MISSING
         ELSE IF record_count < feed_config.min_records
              THEN PARTIAL
              ELSE RECEIVED

\* FeedMonitorService._determine_status (services/feed_monitor.py)
_determine_status(feed_config, cob_date, record_count) ==
    IF weekday(cob_date) >= 5 /\ ~feed_config.weekend_expected
    THEN (IF record_count = 0 THEN RECEIVED ELSE RECEIVED)
    ELSE IF record_count = 0
         THEN MISSING
         ELSE IF record_count < feed_config.min_records
              THEN PARTIAL
              ELSE RECEIVED

(***************************************************************************)
(* Feed registry.                                                          *)
(***************************************************************************)
Str0600 == <<"0", "6", ":", "0", "0">>
Str0900 == <<"0", "9", ":", "0", "0">>
Str1030 == <<"1", "0", ":", "3", "0">>

\* FeedMonitor.get_default_config. The source locator (table, date column,
\* connection string) only addresses the source lookup, whose outcome is an
\* input of the model.
feeds_config ==
    << [name |-> "Customer Transactions", expected_time |-> Str0900,
        tolerance_minutes |-> 60, weekend_expected |-> FALSE, min_records |-> 1000],
       [name |-> "Product Catalog", expected_time |-> Str0600,
        tolerance_minutes |-> 30, weekend_expected |-> TRUE, min_records |-> 100],
       [name |-> "Order Processing", expected_time |-> Str1030,
        tolerance_minutes |-> 45, weekend_expected |-> FALSE, min_records |-> 500] >>

\* Python's None.
None == "None"

\* str(e) of the exception of a failed source lookup.
SourceErrors == {"timeout"}

\* What the source holds for a feed and a date: nothing, less than the
\* minimum, the minimum.
SourceCounts(feed_config) ==
    {0, feed_config.min_records - 1, feed_config.min_records}

\* The outcomes of the source query SELECT COUNT(*): a count, or an
\* exception (I/O error, timeout).
SourceOutcomes(feed_config) ==
    {[raised |-> None, count |-> n] : n \in SourceCounts(feed_config)}
        \cup {[raised |-> e, count |-> 0] : e \in SourceErrors}

\* DatabaseUtils.get_record_count: the count, and 0 when the query raises.
\* No evaluation path of the repository calls it.
get_record_count(outcome) == IF outcome.raised # None THEN 0 ELSE outcome.count

(***************************************************************************)
(* FeedMonitorService: the status store behind the ORM session.            *)
(* Table feed_status has an autoincrement id and no unique constraint on   *)
(* (feed_name, cob_date); rows are never deleted, so row i has id i.       *)
(***************************************************************************)
\* The ids of the rows of a key.
matching(rows, feed_name, cob_date) ==
    {i \in 1..Len(rows) :
        rows[i].feed_name = feed_name /\ rows[i].cob_date = cob_date}

\* query(...).filter(...).first() when the table returns rows in id order;
\* 0 stands for None.
first(rows, feed_name, cob_date) ==
    IF matching(rows, feed_name, cob_date) = {}
    THEN 0
    ELSE CHOOSE i \in matching(rows, feed_name, cob_date) :
             \A j \in matching(rows, feed_name, cob_date) : i <= j

\* Mutant of write: the existing row is never updated, a row is always added.
write_AlwaysInsert(rows, existing, feed_config, cob_date, status, record_count, error_message, now) ==
    Append(rows, [id |-> Len(rows) + 1,
                  feed_name |-> feed_config.name,
                  cob_date |-> cob_date,
                  status |-> status,
                  record_count |-> record_count,
                  last_checked |-> now,
                  expected_time |-> feed_config.expected_time,
                  error_message |-> error_message])

\* Mutant of write: the update of an existing row leaves its error_message
\* as it was.
write_KeepsErrorMessage(rows, existing, feed_config, cob_date, status, record_count, error_message, now) ==
    IF existing # 0
    THEN [rows EXCEPT ![existing] =
             [@ EXCEPT !.status = status,
                       !.record_count = record_count,
                       !.last_checked = now]]
    ELSE Append(rows, [id |-> Len(rows) + 1,
                       feed_name |-> feed_config.name,
                       cob_date |-> cob_date,
                       status |-> status,
                       record_count |-> record_count,
                       last_checked |-> now,
                       expected_time |-> feed_config.expected_time,
                       error_message |-> error_message])

\* _update_feed_status, lines 91-108: update the row found, or add a row,
\* and commit.
write(rows, existing, feed_config, cob_date, status, record_count, error_message, now) ==
    IF existing # 0
    THEN [rows EXCEPT ![existing] =
             [@ EXCEPT !.status = status,
                       !.record_count = record_count,
                       !.last_checked = now,
                       !.error_message = error_message]]
    ELSE Append(rows, [id |-> Len(rows) + 1,
                       feed_name |-> feed_config.name,
                       cob_date |-> cob_date,
                       status |-> status,
                       record_count |-> record_count,
                       last_checked |-> now,
                       expected_time |-> feed_config.expected_time,
                       error_message |-> error_message])

\* FeedMonitorService._update_feed_status run without interruption and
\* without a database error: the table afterwards.
_update_feed_status(rows, feed_config, cob_date, status, record_count, error_message, now) ==
    write(rows, first(rows, feed_config.name, cob_date), feed_config, cob_date,
          status, record_count, error_message, now)

\* Mutant of check_feed_status_except: the failure is swallowed as a count
\* of 0 (as DatabaseUtils.get_record_count does) and evaluated.
check_feed_status_except_AsZeroCount(feed_config, cob_date, e) ==
    [status |-> _determine_status(feed_config, cob_date, 0),
     record_count |-> 0,
     error_message |-> None,
     error |-> None]

\* check_feed_status, lines 51-63: what the except branch stores and returns.
check_feed_status_except(feed_config, cob_date, e) ==
    [status |-> FAILED,
     record_count |-> 0,
     error_message |-> e,
     error |-> e]

\* check_feed_status, lines 36-49: what the try branch stores and returns.
check_feed_status_try(feed_config, cob_date, record_count) ==
    [status |-> _determine_status(feed_config, cob_date, record_count),
     record_count |-> record_count,
     error_message |-> None,
     error |-> None]

Procs == {"p1", "p2"}

\* The feeds and COB dates the callers of the service ask for: the Product
\* Catalog and Order Processing feeds, on a Tuesday.
ServiceConfigs == {feeds_config[2], feeds_config[3]}

ServiceDates == {2}

Keys == {<<c.name, d>> : c \in ServiceConfigs, d \in ServiceDates}

NoRow == [id |-> 0]

NoResult == [status |-> None]

NoFrame ==
    [feed_config |-> feeds_config[2], cob_date |-> 0, raised |-> None,
     status |-> UNKNOWN, record_count |-> 0, error_message |-> None,
     error |-> None, existing |-> 0, wrote |-> FALSE]

\* The service after construction: an empty table, no call in progress.
ServiceIdle ==
    /\ feed_status = <<>>
    /\ pc = [p \in Procs |-> "idle"]
    /\ frame = [p \in Procs |-> NoFrame]
    /\ result = [p \in Procs |-> NoResult]
    /\ calls = 0
    /\ committed = [k \in Keys |-> NoRow]

(***************************************************************************)
(* FeedMonitor: the status table of demo.db, with AUTOINCREMENT id and     *)
(* UNIQUE(feed_name, cob_date), and check_feed_status over it.             *)
(***************************************************************************)
\* The rows of a key.
conflicting(rows, feed_name, cob_date) ==
    {r \in rows : r.feed_name = feed_name /\ r.cob_date = cob_date}

\* INSERT OR REPLACE INTO feed_status (lines 230-237): the rows that
\* conflict on the unique key are deleted and the new row gets a fresh id.
insert_or_replace(rows, seq, feed_config, cob_date, status, record_count, now) ==
    (rows \ conflicting(rows, feed_config.name, cob_date))
        \cup {[id |-> seq + 1,
               feed_name |-> feed_config.name,
               cob_date |-> cob_date,
               status |-> status,
               record_count |-> record_count,
               last_checked |-> now,
               expected_time |-> feed_config.expected_time]}

\* FeedMonitor.check_feed_status, as one transaction: the table, the id
\* counter and the FeedStatusResponse. An exception of the lookup, of the
\* evaluation or of the write ends in the except branch: nothing is
\* written, FAILED with count 0 is returned.
FeedMonitor_check_feed_status(rows, seq, feed_config, cob_date, outcome, write_ok, now) ==
    IF outcome.raised # None \/ ~write_ok
    THEN [rows |-> rows,
          seq |-> seq,
          response |-> [feed_name |-> feed_config.name,
                        cob_date |-> cob_date,
                        status |-> FAILED,
                        record_count |-> 0,
                        last_updated |-> now,
                        expected_time |-> feed_config.expected_time]]
    ELSE LET status == determine_status(feed_config, cob_date, outcome.count)
         IN  [rows |-> insert_or_replace(rows, seq, feed_config, cob_date,
                                         status, outcome.count, now),
              seq |-> seq + 1,
              response |-> [feed_name |-> feed_config.name,
                            cob_date |-> cob_date,
                            status |-> status,
                            record_count |-> outcome.count,
                            last_updated |-> now,
                            expected_time |-> feed_config.expected_time]]

\* The threads that run check_all_feeds: the scheduler's job thread and the
\* request thread of POST /api/feeds/check (and of the startup event).
Sweepers == {"scheduler", "request"}

\* The days on which sweeps are triggered: a Wednesday and a Sunday.
SweepDays == {3, 7}

NoSweep == [state |-> "idle", cob_date |-> 0, i |-> 0, results |-> <<>>]

\* The monolith after construction, before any sweep.
MonolithIdle ==
    /\ demo_feed_status = {}
    /\ demo_seq = 0
    /\ today = 3
    /\ sweep = [s \in Sweepers |-> NoSweep]
    /\ sweeps = 0

NoUpsert == [impl |-> "none"]

\* The scheduler, the alerting service and the summary endpoints before
\* anything has used them: scheduler.start() has run at import (line 298),
\* at an hour after the COB cutoff.
NoSummary == [endpoint |-> "none"]

\* AlertingService built from an empty config: 'enabled' defaults to False.
NoChannels == [email |-> FALSE, slack |-> FALSE]

RestIdle ==
    /\ scheduler = "running"
    /\ now_hour = 9
    /\ alert_config = NoChannels
    /\ alert_calls = <<>>
    /\ attempts = <<>>
    /\ alert_logs = <<>>
    /\ summary = NoSummary

(***************************************************************************)
(* SpecEval: the status evaluators applied to every input of the bounded   *)
(* input space.                                                            *)
(***************************************************************************)
Str2350 == <<"2", "3", ":", "5", "0">>
StrBad == <<"9", "a", "m">>

ExpectedTimes == {Str0900, Str2350, StrBad}

ToleranceMinutes == {30, 60}

ObservedMinutes == {5, 479, 480, 540, 600, 601, 1400, 1430}

Implementations == {"FeedMonitor", "FeedMonitorService"}

EvalConfigs ==
    [name : {"Orders"},
     expected_time : ExpectedTimes,
     tolerance_minutes : ToleranceMinutes,
     weekend_expected : BOOLEAN,
     min_records : -1..MaxMin]

EvalInputs ==
    {e \in [impl : Implementations,
            config : EvalConfigs,
            cob_date : 1..MaxDate,
            record_count : 0..MaxCount,
            observed_at : [date : 1..(MaxDate + 1), minute : ObservedMinutes],
            evaluated : {FALSE},
            status : {UNKNOWN}] :
        e.observed_at.date \in {e.cob_date, e.cob_date + 1}}

NoEval == CHOOSE e \in EvalInputs : TRUE

InitEval ==
    /\ ev \in EvalInputs
    /\ clock = 0
    /\ ServiceIdle
    /\ MonolithIdle
    /\ last = NoUpsert
    /\ RestIdle

\* One call of the evaluator of the chosen implementation.
Evaluate ==
    /\ ~ev.evaluated
    /\ ev' = [ev EXCEPT
                 !.evaluated = TRUE,
                 !.status = IF ev.impl = "FeedMonitor"
                            THEN determine_status(ev.config, ev.cob_date, ev.record_count)
                            ELSE _determine_status(ev.config, ev.cob_date, ev.record_count)]
    /\ UNCHANGED <<serviceVars, clock, monolithVars, last,
                 schedulerVars, alertVars, queryVars>>

NextEval == Evaluate

SpecEval == InitEval /\ [][NextEval]_vars

(***************************************************************************)
(* Claims about the status evaluator (checked under SpecEval).             *)
(***************************************************************************)
IsWeekend(d) == weekday(d) >= 5

\* An excluded day: a weekend day of a feed that is not expected at weekends.
Excluded(config, d) == IsWeekend(d) /\ ~config.weekend_expected

\* The observation lies inside the tolerance window of the feed.
WithinTolerance(e) ==
    is_within_tolerance(e.config.expected_time, e.observed_at, e.config.tolerance_minutes)

\* C1: for a feed whose weekend-expected flag is false, a Saturday or Sunday
\* COB date is evaluated RECEIVED whatever the observed record count.
C1_WeekendNotExpectedReceived ==
    (ev.evaluated /\ ~ev.config.weekend_expected /\ weekday(ev.cob_date) \in {5, 6})
        => ev.status = RECEIVED

\* C1 witness: Saturday, not expected at weekends, count 0 below the minimum.
C1_Witness ==
    /\ ev.evaluated
    /\ weekday(ev.cob_date) = 5
    /\ ~ev.config.weekend_expected
    /\ ev.record_count = 0
    /\ ev.config.min_records = MaxMin
    /\ ev.status = RECEIVED

\* C2: on a non-excluded COB date (a weekday, or a weekend day of a
\* weekend-expected feed) an observed count of 0 is evaluated MISSING.
C2_ZeroCountMissing ==
    (ev.evaluated /\ ~Excluded(ev.config, ev.cob_date) /\ ev.record_count = 0)
        => ev.status = MISSING

\* C2 witness: a weekend-expected feed on a Sunday with no records.
C2_Witness ==
    /\ ev.evaluated
    /\ weekday(ev.cob_date) = 6
    /\ ev.config.weekend_expected
    /\ ev.record_count = 0
    /\ ev.status = MISSING

\* C3 as stated: on a non-excluded COB date, 0 < count < min_records is
\* evaluated PARTIAL, and count >= min_records inside the tolerance window is
\* evaluated RECEIVED.
C3_Original ==
    (ev.evaluated /\ ~Excluded(ev.config, ev.cob_date))
        => /\ (0 < ev.record_count /\ ev.record_count < ev.config.min_records)
                => ev.status = PARTIAL
           /\ (ev.record_count >= ev.config.min_records /\ WithinTolerance(ev))
                => ev.status = RECEIVED

\* C3 as amended: on a non-excluded COB date, 0 < count < min_records is
\* evaluated PARTIAL, and a count that is positive and >= min_records inside
\* the tolerance window is evaluated RECEIVED.
C3_PartialOrReceived ==
    (ev.evaluated /\ ~Excluded(ev.config, ev.cob_date))
        => /\ (0 < ev.record_count /\ ev.record_count < ev.config.min_records)
                => ev.status = PARTIAL
           /\ (ev.record_count > 0 /\ ev.record_count >= ev.config.min_records
                   /\ WithinTolerance(ev))
                => ev.status = RECEIVED

\* C3 witness: a Tuesday, the count just reaches the minimum, observed at
\* the edge of the tolerance window (09:00 + 60 minutes).
C3_Witness ==
    /\ ev.evaluated
    /\ weekday(ev.cob_date) = 1
    /\ ev.config.min_records = MaxMin
    /\ ev.record_count = MaxMin
    /\ ev.config.expected_time = Str0900
    /\ ev.config.tolerance_minutes = 60
    /\ ev.observed_at.minute = 600
    /\ WithinTolerance(ev)
    /\ ev.status = RECEIVED

\* C4: on a non-excluded COB date, a positive count >= min_records observed
\* outside [expected - tolerance, expected + tolerance] is evaluated DELAYED.
C4_OutsideToleranceDelayed ==
    (ev.evaluated /\ ~Excluded(ev.config, ev.cob_date)
        /\ ev.record_count > 0 /\ ev.record_count >= ev.config.min_records
        /\ ~parse_time_string(ev.config.expected_time).raised
        /\ ev.observed_at.date = ev.cob_date
        /\ ~WithinTolerance(ev))
        => ev.status = DELAYED

\* C5: a feed whose min_records is zero or negative is never evaluated
\* PARTIAL; on a non-excluded day a positive count gets the verdict of a
\* count that meets the threshold, and a count of 0 is still MISSING.
C5_NonPositiveMinNeverPartial ==
    (ev.evaluated /\ ev.config.min_records <= 0)
        => /\ ev.status # PARTIAL
           /\ (~Excluded(ev.config, ev.cob_date) /\ ev.record_count > 0)
                => ev.status \in {RECEIVED, DELAYED}
           /\ (~Excluded(ev.config, ev.cob_date) /\ ev.record_count = 0)
                => ev.status = MISSING

\* C5 witness: min_records = -1 on a Tuesday with one record.
C5_Witness ==
    /\ ev.evaluated
    /\ ev.config.min_records = -1
    /\ weekday(ev.cob_date) = 1
    /\ ev.record_count = 1
    /\ ev.status = RECEIVED

(***************************************************************************)
(* SpecService: callers of FeedMonitorService.check_feed_status running    *)
(* concurrently (scheduler threads, request handlers). A call is cut at    *)
(* its database round trips: the source lookup, the query for the existing *)
(* row, the commit.                                                        *)
(***************************************************************************)
\* check_feed_status, lines 26-37 and 51-53: the source lookup and the
\* verdict; the lookup either counts or raises.
check_feed_status_lookup(p) ==
    /\ pc[p] = "idle"
    /\ calls < MaxCalls
    /\ \E feed_config \in ServiceConfigs, cob_date \in ServiceDates :
         \E outcome \in SourceOutcomes(feed_config) :
           LET out == IF outcome.raised # None
                      THEN check_feed_status_except(feed_config, cob_date, outcome.raised)
                      ELSE check_feed_status_try(feed_config, cob_date, outcome.count)
           IN  frame' = [frame EXCEPT ![p] =
                            [feed_config |-> feed_config,
                             cob_date |-> cob_date,
                             raised |-> outcome.raised,
                             status |-> out.status,
                             record_count |-> out.record_count,
                             error_message |-> out.error_message,
                             error |-> out.error,
                             existing |-> 0,
                             wrote |-> FALSE]]
    /\ pc' = [pc EXCEPT ![p] = "query"]
    /\ calls' = calls + 1
    /\ UNCHANGED <<monolithVars, last, ev, feed_status, result, clock, committed,
                 schedulerVars, alertVars, queryVars>>

\* _update_feed_status, lines 84-89: open the session and look for the row
\* of the key. The table has no order of its own: any row of the key may be
\* the first.
_update_feed_status_query(p) ==
    /\ pc[p] = "query"
    /\ LET m == matching(feed_status, frame[p].feed_config.name, frame[p].cob_date)
       IN  \E existing \in (IF m = {} THEN {0} ELSE m) :
             frame' = [frame EXCEPT ![p].existing = existing]
    /\ pc' = [pc EXCEPT ![p] = "commit"]
    /\ UNCHANGED <<monolithVars, last, ev, feed_status, result, clock, calls, committed,
                 schedulerVars, alertVars, queryVars>>

\* check_feed_status, lines 42-49 and 55-63: the dict returned.
returned(f, now) ==
    [feed_name |-> f.feed_config.name,
     cob_date |-> f.cob_date,
     status |-> f.status,
     record_count |-> f.record_count,
     last_updated |-> now,
     expected_time |-> f.feed_config.expected_time,
     error |-> f.error]

\* _update_feed_status, lines 91-108: update or add, and commit; then
\* check_feed_status returns its dict.
_update_feed_status_commit(p) ==
    /\ pc[p] = "commit"
    /\ LET f == frame[p]
           rows == write(feed_status, f.existing, f.feed_config, f.cob_date,
                         f.status, f.record_count, f.error_message, clock)
           id == IF f.existing # 0 THEN f.existing ELSE Len(rows)
       IN  /\ feed_status' = rows
           /\ committed' = [committed EXCEPT ![<<f.feed_config.name, f.cob_date>>] = rows[id]]
    /\ clock' = clock + 1
    /\ frame' = [frame EXCEPT ![p].wrote = TRUE]
    /\ result' = [result EXCEPT ![p] = returned(frame[p], clock + 1)]
    /\ pc' = [pc EXCEPT ![p] = "idle"]
    /\ UNCHANGED <<monolithVars, last, ev, calls,
                 schedulerVars, alertVars, queryVars>>

\* _update_feed_status, lines 110-111: the session, the query or the commit
\* raises; the error is logged and nothing is written; then
\* check_feed_status returns its dict.
_update_feed_status_error(p) ==
    /\ pc[p] \in {"query", "commit"}
    /\ result' = [result EXCEPT ![p] = returned(frame[p], clock)]
    /\ pc' = [pc EXCEPT ![p] = "idle"]
    /\ UNCHANGED <<monolithVars, last, ev, feed_status, frame, clock, calls, committed,
                 schedulerVars, alertVars, queryVars>>

InitService ==
    /\ ev = NoEval
    /\ clock = 0
    /\ ServiceIdle
    /\ MonolithIdle
    /\ last = NoUpsert
    /\ RestIdle

NextService ==
    \E p \in Procs :
        \/ check_feed_status_lookup(p)
        \/ _update_feed_status_query(p)
        \/ _update_feed_status_commit(p)
        \/ _update_feed_status_error(p)

SpecService == InitService /\ [][NextService]_vars

(***************************************************************************)
(* Claims about FeedMonitorService under concurrent callers (SpecService). *)
(***************************************************************************)
\* The call of p ends in this step.
Returns(p) == pc[p] # "idle" /\ pc'[p] = "idle"

\* The table holds a FAILED row of the key with count 0 and the message.
HasFailedRow(rows, feed_name, cob_date, message) ==
    \E i \in matching(rows, feed_name, cob_date) :
        /\ rows[i].status = FAILED
        /\ rows[i].record_count = 0
        /\ rows[i].error_message = message

\* The dict returned reports FAILED, count 0 and a populated error message.
ReturnsFailed(r) ==
    /\ r.status = FAILED
    /\ r.record_count = 0
    /\ r.error \notin {None, ""}

C7_AtMostOneRecordPerKey ==
    \A i, j \in 1..Len(feed_status) :
        (feed_status[i].feed_name = feed_status[j].feed_name
            /\ feed_status[i].cob_date = feed_status[j].cob_date) => i = j

\* No call is between its query and its commit for the key.
Quiet(k) ==
    \A p \in Procs :
        pc[p] \in {"query", "commit"}
            => <<frame[p].feed_config.name, frame[p].cob_date>> # k

\* C9: once the concurrent upserts of a key have completed, what the table
\* holds for the key is, in all fields, the row written by the upsert that
\* committed last.
C9_LastCommitWins ==
    \A k \in Keys :
        (committed[k] # NoRow /\ Quiet(k))
            => /\ matching(feed_status, k[1], k[2]) # {}
               /\ \A i \in matching(feed_status, k[1], k[2]) :
                      feed_status[i] = committed[k]

\* C16: when the status-store write of an evaluation fails (after the one
\* retry the claim asks for), the evaluation's result is marked FAILED, not
\* the verdict computed from the count, and nothing is raised. The service
\* makes a single attempt: the step that fails ends the call.
C16_FailedWriteMarksFailed ==
    [][\A p \in Procs :
          (Returns(p) /\ ~frame'[p].wrote) => result'[p].status = FAILED]_vars

UpsertDates == {2, 6}

\* What check_feed_status hands to _update_feed_status for a feed and date.
ServiceWrites(feed_config, cob_date) ==
    {check_feed_status_try(feed_config, cob_date, n) : n \in SourceCounts(feed_config)}
        \cup {check_feed_status_except(feed_config, cob_date, e) : e \in SourceErrors}

\* The table without the surrogate id and the last-checked timestamp.
ServiceContent(rows) ==
    [i \in 1..Len(rows) |->
        [feed_name |-> rows[i].feed_name,
         cob_date |-> rows[i].cob_date,
         status |-> rows[i].status,
         record_count |-> rows[i].record_count,
         expected_time |-> rows[i].expected_time,
         error_message |-> rows[i].error_message]]

MonolithContent(rows) ==
    {[feed_name |-> r.feed_name,
      cob_date |-> r.cob_date,
      status |-> r.status,
      record_count |-> r.record_count,
      expected_time |-> r.expected_time] : r \in rows}

\* FeedMonitorService._update_feed_status, applied by a single caller.
ServiceUpsert ==
    /\ calls < MaxUpserts
    /\ \E feed_config \in ServiceConfigs, cob_date \in UpsertDates :
         \E w \in ServiceWrites(feed_config, cob_date) :
           LET this == [impl |-> "FeedMonitorService",
                        feed_name |-> feed_config.name,
                        cob_date |-> cob_date,
                        status |-> w.status,
                        record_count |-> w.record_count,
                        error_message |-> w.error_message]
           IN  /\ feed_status' = _update_feed_status(feed_status, feed_config, cob_date,
                                     w.status, w.record_count, w.error_message, clock)
               /\ last' = this @@ [repeat |-> /\ last.impl = this.impl
                                       /\ [x \in DOMAIN this |-> last[x]] = this,
                            before |-> ServiceContent(feed_status)]
    /\ clock' = clock + 1
    /\ calls' = calls + 1
    /\ UNCHANGED <<ev, pc, frame, result, committed, monolithVars,
                 schedulerVars, alertVars, queryVars>>

\* FeedMonitor.check_feed_status, lines 229-237, applied by a single caller.
MonolithUpsert ==
    /\ calls < MaxUpserts
    /\ \E feed_config \in ServiceConfigs, cob_date \in UpsertDates :
         \E n \in SourceCounts(feed_config) :
           LET this == [impl |-> "FeedMonitor",
                        feed_name |-> feed_config.name,
                        cob_date |-> cob_date,
                        status |-> determine_status(feed_config, cob_date, n),
                        record_count |-> n,
                        error_message |-> None]
           IN  /\ demo_feed_status' = insert_or_replace(demo_feed_status, demo_seq,
                                          feed_config, cob_date, this.status, n, clock)
               /\ last' = this @@ [repeat |-> /\ last.impl = this.impl
                                       /\ [x \in DOMAIN this |-> last[x]] = this,
                            before |-> MonolithContent(demo_feed_status)]
    /\ demo_seq' = demo_seq + 1
    /\ clock' = clock + 1
    /\ calls' = calls + 1
    /\ UNCHANGED <<ev, feed_status, pc, frame, result, committed, today, sweep, sweeps,
                 schedulerVars, alertVars, queryVars>>

InitUpsert ==
    /\ ev = NoEval
    /\ clock = 0
    /\ ServiceIdle
    /\ MonolithIdle
    /\ last = NoUpsert
    /\ RestIdle

NextUpsert == ServiceUpsert \/ MonolithUpsert

SpecUpsert == InitUpsert /\ [][NextUpsert]_vars

\* C8: after an upsert the table holds exactly one row of the key, and it
\* carries the values upserted (old values are replaced); when the upsert
\* repeats the one before it, the table content, the last-checked timestamp
\* apart, is what it was after the first of the two.
C8_UpsertIdempotent ==
    /\ last.impl = "FeedMonitorService"
         => LET m == matching(feed_status, last.feed_name, last.cob_date)
            IN  /\ Cardinality(m) = 1
                /\ \A i \in m :
                       /\ feed_status[i].status = last.status
                       /\ feed_status[i].record_count = last.record_count
                       /\ feed_status[i].error_message = last.error_message
                /\ last.repeat => ServiceContent(feed_status) = last.before
    /\ last.impl = "FeedMonitor"
         => LET c == conflicting(demo_feed_status, last.feed_name, last.cob_date)
            IN  /\ Cardinality(c) = 1
                /\ \A r \in c :
                       /\ r.status = last.status
                       /\ r.record_count = last.record_count
                /\ last.repeat
                       => /\ MonolithContent(demo_feed_status) = last.before
                          /\ Cardinality(demo_feed_status) = Cardinality(last.before)

\* C8 witness: the same upsert applied twice in a row to the service's
\* table, which holds another key as well.
C8_Witness ==
    /\ last.impl = "FeedMonitorService"
    /\ last.repeat
    /\ Len(feed_status) = 2
    /\ Cardinality(matching(feed_status, last.feed_name, last.cob_date)) = 1

(***************************************************************************)
(* SpecSweep: FeedMonitor.check_all_feeds, run by the scheduler's thread   *)
(* and by request threads; a sweep is cut at its per-feed transactions.    *)
(***************************************************************************)
\* What the source may answer during a sweep: nothing, the minimum, or an
\* exception.
SweepOutcomes(feed_config) ==
    {[raised |-> None, count |-> n] : n \in {0, feed_config.min_records}}
        \cup {[raised |-> e, count |-> 0] : e \in SourceErrors}

\* Mutant of check_all_feeds_next: the failure of a feed is not contained,
\* it ends the loop.
check_all_feeds_next_AbortOnFailure(i, response) ==
    IF response.status = FAILED THEN Len(feeds_config) + 1 ELSE i + 1

\* check_all_feeds, lines 279-284: whatever check_feed_status returned (or
\* raised), the loop goes on with the next feed.
check_all_feeds_next(i, response) == i + 1

\* check_all_feeds, lines 276-277: the sweep starts for yesterday.
check_all_feeds_start(s) ==
    /\ sweep[s].state # "running"
    /\ sweeps < MaxSweeps
    /\ sweep' = [sweep EXCEPT ![s] =
                    [state |-> "running", cob_date |-> today - 1, i |-> 1, results |-> <<>>]]
    /\ sweeps' = sweeps + 1
    /\ UNCHANGED <<ev, serviceVars, clock, demo_feed_status, demo_seq, today, last,
                 schedulerVars, alertVars, queryVars>>

\* check_all_feeds, lines 279-284: check_feed_status for the next feed of
\* the registry; the result is logged. After the last feed the sweep is done.
check_all_feeds_step(s) ==
    /\ sweep[s].state = "running"
    /\ sweep[s].i <= Len(feeds_config)
    /\ LET w == sweep[s]
           feed_config == feeds_config[w.i]
       IN  \E outcome \in SweepOutcomes(feed_config), write_ok \in BOOLEAN :
             LET c == FeedMonitor_check_feed_status(demo_feed_status, demo_seq,
                          feed_config, w.cob_date, outcome, write_ok, clock)
                 next == check_all_feeds_next(w.i, c.response)
             IN  /\ outcome.raised # None => write_ok
                 /\ demo_feed_status' = c.rows
                 /\ demo_seq' = c.seq
                 /\ sweep' = [sweep EXCEPT ![s] =
                                 [state |-> IF next > Len(feeds_config)
                                            THEN "done" ELSE "running",
                                  cob_date |-> w.cob_date,
                                  i |-> next,
                                  results |-> Append(w.results,
                                      [feed_name |-> c.response.feed_name,
                                       status |-> c.response.status,
                                       record_count |-> c.response.record_count,
                                       outcome |-> outcome,
                                       write_ok |-> write_ok])]]
    /\ clock' = clock + 1
    /\ UNCHANGED <<ev, serviceVars, today, sweeps, last,
                 schedulerVars, alertVars, queryVars>>

InitSweep ==
    /\ ev = NoEval
    /\ clock = 0
    /\ ServiceIdle
    /\ demo_feed_status = {}
    /\ demo_seq = 0
    /\ today \in SweepDays
    /\ sweep = [s \in Sweepers |-> NoSweep]
    /\ sweeps = 0
    /\ last = NoUpsert
    /\ RestIdle

NextSweep ==
    \E s \in Sweepers :
        \/ check_all_feeds_start(s)
        \/ check_all_feeds_step(s)

SpecSweep == InitSweep /\ [][NextSweep]_vars

C21_ReturnedEqualsPersisted ==
    [][\A s \in Sweepers :
          Len(sweep'[s].results) > Len(sweep[s].results)
              => LET r == sweep'[s].results[Len(sweep'[s].results)]
                 IN  \E row \in demo_feed_status' :
                        /\ row.feed_name = r.feed_name
                        /\ row.cob_date = sweep'[s].cob_date
                        /\ row.status = r.status
                        /\ row.record_count = r.record_count]_vars

(***************************************************************************)
(* SpecScheduler: the BackgroundScheduler of main copy 2.py with its job   *)
(* feed_check_job, the event loop that serves POST /api/feeds/check and    *)
(* the startup check, shutdown, and the wall clock.                        *)
(***************************************************************************)
\* The hour before which get_cob_date still answers the previous day.
CutoffHour == 6

\* The hours at which sweeps are triggered: one before the cutoff, one after.
TriggerHours == {5, 9}

\* DateUtils.get_cob_date, lines 57-67, on the reading now of the clock in
\* the requested time zone.
get_cob_date(now) ==
    IF now.hour < CutoffHour THEN now.date - 1 ELSE now.date

\* check_all_feeds, lines 276-277: the run of thread s starts, for the day
\* before today.
check_all_feeds_enter(s) ==
    [sweep EXCEPT ![s] =
        [state |-> "running", cob_date |-> today - 1, i |-> 1, results |-> <<>>]]

\* The scheduler fires feed_check_job (lines 291-297) on its worker thread.
\* add_job leaves max_instances at 1: a tick that comes while the previous
\* run of the job is still going is skipped. A stopped scheduler fires no job.
feed_check_job ==
    /\ scheduler = "running"
    /\ sweep["scheduler"].state # "running"
    /\ sweeps < MaxTriggers
    /\ sweep' = check_all_feeds_enter("scheduler")
    /\ sweeps' = sweeps + 1
    /\ UNCHANGED <<ev, serviceVars, clock, demo_feed_status, demo_seq, today, last,
                   schedulerVars, alertVars, queryVars>>

\* POST /api/feeds/check, lines 392-400 (and the startup check, line 305):
\* check_all_feeds is called on the event loop, whatever the scheduler is
\* doing. The handler never awaits, so the event loop runs one at a time.
trigger_feed_check ==
    /\ sweep["request"].state # "running"
    /\ sweeps < MaxTriggers
    /\ sweep' = check_all_feeds_enter("request")
    /\ sweeps' = sweeps + 1
    /\ UNCHANGED <<ev, serviceVars, clock, demo_feed_status, demo_seq, today, last,
                   schedulerVars, alertVars, queryVars>>

\* shutdown_event, lines 307-309: scheduler.shutdown() stops the scheduler;
\* a run of the job that is under way is left to finish.
shutdown_event ==
    /\ scheduler = "running"
    /\ scheduler' = "stopped"
    /\ UNCHANGED <<ev, serviceVars, clock, monolithVars, last, now_hour,
                   alertVars, queryVars>>

\* The wall clock passes the cutoff within the calendar day.
time_passes ==
    /\ now_hour < CutoffHour
    /\ now_hour' = CHOOSE h \in TriggerHours : h >= CutoffHour
    /\ UNCHANGED <<ev, serviceVars, clock, monolithVars, last, scheduler,
                   alertVars, queryVars>>

\* A step of a sweep in which the source answers and the table takes the
\* write.
check_all_feeds_step_ok(s) ==
    /\ check_all_feeds_step(s)
    /\ LET r == sweep'[s].results[Len(sweep'[s].results)]
       IN  r.outcome.raised = None /\ r.write_ok

InitScheduler ==
    /\ ev = NoEval
    /\ clock = 0
    /\ ServiceIdle
    /\ demo_feed_status = {}
    /\ demo_seq = 0
    /\ today \in SweepDays
    /\ sweep = [s \in Sweepers |-> NoSweep]
    /\ sweeps = 0
    /\ last = NoUpsert
    /\ scheduler = "running"
    /\ now_hour = CHOOSE h \in TriggerHours : h < CutoffHour
    /\ alert_config = NoChannels
    /\ alert_calls = <<>>
    /\ attempts = <<>>
    /\ alert_logs = <<>>
    /\ summary = NoSummary

NextScheduler ==
    \/ feed_check_job
    \/ trigger_feed_check
    \/ shutdown_event
    \/ time_passes
    \/ \E s \in Sweepers : check_all_feeds_step_ok(s)

SpecScheduler == InitScheduler /\ [][NextScheduler]_vars

\* A sweep of thread s starts in this step.
Starts(s) == sweep[s].state # "running" /\ sweep'[s].state = "running"

\* C11: at most one sweep over the feed set is in progress at any time: the
\* scheduled job and a manual trigger (or the startup check) never run
\* check_all_feeds concurrently.
C11_NoOverlappingSweeps ==
    Cardinality({s \in Sweepers : sweep[s].state = "running"}) <= 1

\* C12: STOPPED is terminal: once the scheduler has been shut down it stays
\* stopped and no sweep, scheduled or manually triggered, starts any more.
C12_StoppedIsTerminal ==
    [][scheduler = "stopped"
           => (scheduler' = "stopped" /\ \A s \in Sweepers : ~Starts(s))]_vars

\* C17: the COB date a sweep targets is the one the cutoff rule of
\* get_cob_date gives for the wall-clock time of the trigger: the previous
\* calendar day before the cutoff hour, the current calendar day from the
\* cutoff hour on.
C17_SweepTargetsCutoffDate ==
    [][\A s \in Sweepers :
          Starts(s) => sweep'[s].cob_date
                         = get_cob_date([date |-> today, hour |-> now_hour])]_vars

(***************************************************************************)
(* SpecAlert: AlertingService (services/alerting.py). A channel either     *)
(* delivers or raises (SMTP error, HTTP error, missing configuration key). *)
(***************************************************************************)
Channels == {"email", "slack"}

ChannelOutcomes == {"sent", "failed"}

\* The statuses the dispatcher is called with, for one feed and COB date.
AlertInputs ==
    {[feed_name |-> feeds_config[3].name, status |-> st, cob_date |-> 2,
      record_count |-> 0,
      error_message |-> IF st = FAILED THEN "timeout" ELSE None] :
        st \in {RECEIVED, MISSING, FAILED}}

\* Mutant of _send_email_alert: the exception of the SMTP exchange is not
\* caught in the channel but leaves it.
_send_email_alert_Propagates(alert_data, outcome) ==
    [attempted |-> <<[channel |-> "email", alert |-> alert_data, outcome |-> outcome]>>,
     raised |-> IF outcome = "failed" THEN "SMTPException" ELSE None]

\* _send_email_alert, lines 41-79: the notification is attempted; an
\* exception is logged (line 79) and does not leave the method.
_send_email_alert(alert_data, outcome) ==
    [attempted |-> <<[channel |-> "email", alert |-> alert_data, outcome |-> outcome]>>,
     raised |-> None]

\* _send_slack_alert, lines 81-141: the same for the webhook.
_send_slack_alert(alert_data, outcome) ==
    [attempted |-> <<[channel |-> "slack", alert |-> alert_data, outcome |-> outcome]>>,
     raised |-> None]

\* send_alert, lines 18-39: the enabled channels in turn, inside one try; an
\* exception that reaches send_alert ends the try block and is logged
\* (line 39).
send_alert(config, alert_data, email_outcome, slack_outcome) ==
    LET email == IF config.email
                 THEN _send_email_alert(alert_data, email_outcome)
                 ELSE [attempted |-> <<>>, raised |-> None]
        slack == IF email.raised = None /\ config.slack
                 THEN _send_slack_alert(alert_data, slack_outcome)
                 ELSE [attempted |-> <<>>, raised |-> None]
    IN  [attempted |-> email.attempted \o slack.attempted, raised |-> None]

\* One call of send_alert. No row of alert_logs is written anywhere in the
\* service.
SendAlert ==
    /\ Len(alert_calls) < MaxAlerts
    /\ \E a \in AlertInputs, email_outcome \in ChannelOutcomes, slack_outcome \in ChannelOutcomes :
         LET alert_data == a @@ [timestamp |-> clock, call |-> Len(alert_calls) + 1]
             r == send_alert(alert_config, alert_data, email_outcome, slack_outcome)
         IN  /\ (~alert_config.email) => email_outcome = "sent"
             /\ (~alert_config.slack) => slack_outcome = "sent"
             /\ attempts' = attempts \o r.attempted
             /\ alert_calls' = Append(alert_calls, alert_data @@ [raised |-> r.raised])
    /\ clock' = clock + 1
    /\ UNCHANGED <<ev, serviceVars, monolithVars, last, schedulerVars,
                   alert_config, alert_logs, queryVars>>

InitAlert ==
    /\ ev = NoEval
    /\ clock = 0
    /\ ServiceIdle
    /\ MonolithIdle
    /\ last = NoUpsert
    /\ scheduler = "running"
    /\ now_hour = 9
    /\ alert_config \in [email : BOOLEAN, slack : BOOLEAN]
    /\ alert_calls = <<>>
    /\ attempts = <<>>
    /\ alert_logs = <<>>
    /\ summary = NoSummary

NextAlert == SendAlert

SpecAlert == InitAlert /\ [][NextAlert]_vars

Anomalies == {DELAYED, MISSING, PARTIAL, FAILED}

\* The re-alert interval, in clock readings: longer than any behaviour of the
\* model, so that within a behaviour it never elapses.
ReAlertInterval == MaxAlerts + 1

\* The notifications attempted for call i of send_alert.
AttemptsOf(i) == {j \in 1..Len(attempts) : attempts[j].alert.call = i}

\* C13: a notification is emitted only for an anomaly verdict, and only when
\* the previous verdict given for the feed and COB date is absent or
\* different, or the re-alert interval has elapsed since the last alert.
C13_AlertOnlyOnNewAnomaly ==
    \A i \in 1..Len(alert_calls) :
        AttemptsOf(i) # {}
            => /\ alert_calls[i].status \in Anomalies
               /\ \/ i = 1
                  \/ alert_calls[i - 1].status # alert_calls[i].status
                  \/ \E k \in 1..(i - 1) :
                        /\ AttemptsOf(k) # {}
                        /\ \A l \in (k + 1)..(i - 1) : AttemptsOf(l) = {}
                        /\ alert_calls[i].timestamp - alert_calls[k].timestamp
                               >= ReAlertInterval

\* C14: for every alert each enabled channel is attempted, exactly once,
\* whatever happened on the other channel, and send_alert raises nothing.
C14_ChannelsIndependent ==
    \A i \in 1..Len(alert_calls) :
        /\ alert_calls[i].raised = None
        /\ \A ch \in Channels :
               Cardinality({j \in AttemptsOf(i) : attempts[j].channel = ch})
                   = IF alert_config[ch] THEN 1 ELSE 0

\* C14 witness: an alert whose email failed and whose webhook was attempted
\* all the same.
C14_Witness ==
    \E i \in 1..Len(alert_calls) :
        /\ \E j \in AttemptsOf(i) :
               attempts[j].channel = "email" /\ attempts[j].outcome = "failed"
        /\ \E j \in AttemptsOf(i) : attempts[j].channel = "slack"
        /\ alert_calls[i].raised = None

\* C15: every attempted notification has exactly one entry in alert_logs,
\* with its feed, COB date, channel and outcome ('sent' or 'failed').
C15_EveryAttemptLogged ==
    /\ Len(alert_logs) = Len(attempts)
    /\ \A j \in 1..Len(attempts) :
           /\ alert_logs[j].feed_name = attempts[j].alert.feed_name
           /\ alert_logs[j].cob_date = attempts[j].alert.cob_date
           /\ alert_logs[j].alert_type = attempts[j].channel
           /\ alert_logs[j].alert_status = attempts[j].outcome

(***************************************************************************)
(* SpecQuery: one summary query over the status tables, after upserts      *)
(* applied in any order: get_feed_summary of FeedMonitorService and        *)
(* GET /api/feeds/status (get_feeds_status) of main copy 2.py.             *)
(***************************************************************************)
\* The day of the queries: a Saturday.
QueryDay == 6

\* The values of parameter days of get_feed_summary.
QueryDays == {0, 4}

\* The enumerations of a finite set, each element once.
Orders(S) ==
    {f \in [1..Cardinality(S) -> S] : \A i, j \in 1..Cardinality(S) : f[i] = f[j] => i = j}

\* get_feed_summary, lines 131-136: the value stored under a date.
summary_entry(row) ==
    [cob_date |-> row.cob_date,
     status |-> row.status,
     count |-> row.record_count,
     is_weekend |-> weekday(row.cob_date) >= 5]

\* daily_status[date] = entry: the value of an existing key is replaced in
\* place, a new key goes to the end of the dict.
dict_set(daily_status, entry) ==
    IF \E k \in 1..Len(daily_status) : daily_status[k].cob_date = entry.cob_date
    THEN [k \in 1..Len(daily_status) |->
             IF daily_status[k].cob_date = entry.cob_date THEN entry ELSE daily_status[k]]
    ELSE Append(daily_status, entry)

\* get_feed_summary, lines 125-144: the rows the query returned, grouped by
\* feed name in the order in which they came.
RECURSIVE get_feed_summary(_)
get_feed_summary(results) ==
    IF results = <<>> THEN <<>>
    ELSE LET row == results[Len(results)]
             feed_data == get_feed_summary(SubSeq(results, 1, Len(results) - 1))
         IN  IF \E k \in 1..Len(feed_data) : feed_data[k].feed_name = row.feed_name
             THEN [k \in 1..Len(feed_data) |->
                      IF feed_data[k].feed_name = row.feed_name
                      THEN [feed_data[k] EXCEPT !.daily_status = dict_set(@, summary_entry(row))]
                      ELSE feed_data[k]]
             ELSE Append(feed_data, [feed_name |-> row.feed_name,
                                     daily_status |-> <<summary_entry(row)>>])

\* get_feed_summary, lines 115-123: the rows with start_date <= cob_date <=
\* end_date; the query has no ORDER BY, the rows come in any order.
GetFeedSummary ==
    /\ summary = NoSummary
    /\ \E days \in QueryDays :
         LET end_date == today
             start_date == end_date - days
             hits == {i \in 1..Len(feed_status) :
                         /\ feed_status[i].cob_date >= start_date
                         /\ feed_status[i].cob_date <= end_date}
         IN  \E order \in Orders(hits) :
               summary' = [endpoint |-> "get_feed_summary",
                           start_date |-> start_date,
                           end_date |-> end_date,
                           table |-> feed_status,
                           feeds |-> get_feed_summary(
                                        [k \in 1..Len(order) |-> feed_status[order[k]]])]
    /\ UNCHANGED <<ev, serviceVars, monolithVars, last, clock, schedulerVars, alertVars>>

\* Mutant of daily_status_entry: a date without a stored row is not
\* re-evaluated against the source.
daily_status_entry_StoredOnly(rows, feed_config, current_date, count) ==
    LET hit == conflicting(rows, feed_config.name, current_date)
    IN  IF hit # {}
        THEN LET row == CHOOSE r \in hit : TRUE
             IN  [cob_date |-> current_date, status |-> row.status,
                  count |-> row.record_count, is_weekend |-> weekday(current_date) >= 5]
        ELSE [cob_date |-> current_date, status |-> UNKNOWN,
              count |-> 0, is_weekend |-> weekday(current_date) >= 5]

\* get_feeds_status, lines 336-357: the entry of a date: the stored status
\* and count when the table has a row of (feed, date), otherwise the live
\* count of the source and determine_status of it.
daily_status_entry(rows, feed_config, current_date, count) ==
    LET hit == conflicting(rows, feed_config.name, current_date)
    IN  IF hit # {}
        THEN LET row == CHOOSE r \in hit : TRUE
             IN  [cob_date |-> current_date, status |-> row.status,
                  count |-> row.record_count, is_weekend |-> weekday(current_date) >= 5]
        ELSE [cob_date |-> current_date,
              status |-> determine_status(feed_config, current_date, count),
              count |-> count, is_weekend |-> weekday(current_date) >= 5]

\* What SELECT COUNT(*) of the source table answers for a feed and date: on
\* the lean day nothing, on the other days the minimum or one less.
LiveCount(live, i, d) ==
    IF d = live.lean_day THEN 0
    ELSE IF live.full[i] THEN feeds_config[i].min_records
         ELSE feeds_config[i].min_records - 1

\* get_feeds_status, lines 323-367: for every feed of the registry, every
\* date from start_date to end_date, in ascending order.
get_feeds_status(rows, start_date, end_date, live) ==
    [i \in 1..Len(feeds_config) |->
        [feed_name |-> feeds_config[i].name,
         daily_status |->
             [k \in 1..(end_date - start_date + 1) |->
                 daily_status_entry(rows, feeds_config[i], start_date + k - 1,
                                    LiveCount(live, i, start_date + k - 1))]]]

\* GET /api/feeds/status. An exception anywhere (lines 369-371) is answered
\* with status code 500 and no summary.
GetFeedsStatus ==
    /\ summary = NoSummary
    /\ LET end_date == today
           start_date == end_date - SummaryDays
       IN  \E ok \in BOOLEAN :
           \E live \in [lean_day : start_date..end_date,
                        full : [1..Len(feeds_config) -> BOOLEAN]] :
             /\ ~ok => (live.lean_day = start_date /\ \A i \in 1..Len(feeds_config) : live.full[i])
             /\ summary' = [endpoint |-> "get_feeds_status",
                             status_code |-> IF ok THEN 200 ELSE 500,
                            start_date |-> start_date,
                            end_date |-> end_date,
                            table |-> demo_feed_status,
                            live |-> live,
                            feeds |-> IF ok
                                      THEN get_feeds_status(demo_feed_status,
                                               start_date, end_date, live)
                                      ELSE <<>>]
    /\ UNCHANGED <<ev, serviceVars, monolithVars, last, clock, schedulerVars, alertVars>>

InitQuery ==
    /\ ev = NoEval
    /\ clock = 0
    /\ ServiceIdle
    /\ demo_feed_status = {}
    /\ demo_seq = 0
    /\ today = QueryDay
    /\ sweep = [s \in Sweepers |-> NoSweep]
    /\ sweeps = 0
    /\ last = NoUpsert
    /\ RestIdle

\* The upserts of SpecUpsert, up to MaxStored of them, before the query
\* that ends the behaviour.
StoreServiceRow == calls < MaxStored /\ summary = NoSummary /\ ServiceUpsert

StoreMonolithRow == calls < MaxStored /\ summary = NoSummary /\ MonolithUpsert

NextQuery ==
    \/ StoreServiceRow
    \/ StoreMonolithRow
    \/ GetFeedSummary
    \/ GetFeedsStatus

SpecQuery == InitQuery /\ [][NextQuery]_vars

\* The dates of a daily_status, in its order.
Dates(daily_status) == [k \in 1..Len(daily_status) |-> daily_status[k].cob_date]

\* Strictly ascending: sorted, every date once.
Ascending(dates) == \A k \in 1..(Len(dates) - 1) : dates[k] < dates[k + 1]

\* C18: the range query of the service answers, for a feed, exactly the
\* stored records with start_date <= cob_date <= end_date, each date once,
\* in ascending order of COB date, whatever the order of the upserts.
C18_RangeSortedInclusive ==
    summary.endpoint = "get_feed_summary"
        => /\ \A i \in 1..Len(summary.table) :
                  (summary.table[i].cob_date \in summary.start_date..summary.end_date)
                      => \E f \in 1..Len(summary.feeds) :
                            summary.feeds[f].feed_name = summary.table[i].feed_name
           /\ \A f \in 1..Len(summary.feeds) :
                  LET daily_status == summary.feeds[f].daily_status
                      stored == {summary.table[i].cob_date :
                                    i \in {j \in 1..Len(summary.table) :
                                        /\ summary.table[j].feed_name = summary.feeds[f].feed_name
                                        /\ summary.table[j].cob_date >= summary.start_date
                                        /\ summary.table[j].cob_date <= summary.end_date}}
                  IN  /\ {daily_status[k].cob_date : k \in 1..Len(daily_status)} = stored
                      /\ Ascending(Dates(daily_status))

\* C19: in the historical summary every registered feed has exactly one
\* entry for every date of the range, in order; the entry carries the stored
\* status and count when the table has a record of (feed, date), and
\* otherwise the evaluator's verdict for the live source count of that date;
\* the query leaves the table as it was.
C19_SummaryFallback ==
    (summary.endpoint = "get_feeds_status" /\ summary.status_code = 200)
        => /\ Len(summary.feeds) = Len(feeds_config)
           /\ demo_feed_status = summary.table
           /\ \A i \in 1..Len(summary.feeds) :
                  LET daily_status == summary.feeds[i].daily_status
                  IN  /\ summary.feeds[i].feed_name = feeds_config[i].name
                      /\ Len(daily_status) = summary.end_date - summary.start_date + 1
                      /\ \A k \in 1..Len(daily_status) :
                             LET d == summary.start_date + k - 1
                                 hit == {r \in summary.table :
                                            r.feed_name = feeds_config[i].name /\ r.cob_date = d}
                                 n == LiveCount(summary.live, i, d)
                             IN  /\ daily_status[k].cob_date = d
                                 /\ \A r \in hit : /\ daily_status[k].status = r.status
                                                   /\ daily_status[k].count = r.record_count
                                 /\ hit = {} => /\ daily_status[k].count = n
                                                /\ daily_status[k].status
                                                     = determine_status(feeds_config[i], d, n)

\* C19 witness: a summary in which one date of a feed comes from the stored
\* record and another date of the same feed from the live count, evaluated
\* PARTIAL.
C19_Witness ==
    /\ summary.endpoint = "get_feeds_status"
    /\ summary.status_code = 200
    /\ \E i \in 1..Len(summary.feeds) :
         /\ \E r \in summary.table :
               /\ r.feed_name = summary.feeds[i].feed_name
               /\ r.cob_date = summary.end_date
               /\ summary.feeds[i].daily_status[Len(summary.feeds[i].daily_status)].status
                      = r.status
         /\ \E k \in 1..Len(summary.feeds[i].daily_status) :
               /\ summary.feeds[i].daily_status[k].status = PARTIAL
               /\ \A r \in summary.table :
                      ~(r.feed_name = summary.feeds[i].feed_name
                          /\ r.cob_date = summary.feeds[i].daily_status[k].cob_date)

(***************************************************************************)
(* SpecTolerance: DateUtils.is_within_tolerance applied to every input of  *)
(* the bounded input space.                                                *)
(***************************************************************************)
ToleranceInputs ==
    [expected_time : ExpectedTimes,
     actual_time : [date : 1..MaxDate, minute : ObservedMinutes],
     tolerance_minutes : ToleranceMinutes,
     checked : {FALSE},
     within : {FALSE}]

InitTolerance ==
    /\ ev \in ToleranceInputs
    /\ clock = 0
    /\ ServiceIdle
    /\ MonolithIdle
    /\ last = NoUpsert
    /\ RestIdle

\* One call of DateUtils.is_within_tolerance.
CheckTolerance ==
    /\ ~ev.checked
    /\ ev' = [ev EXCEPT
                 !.checked = TRUE,
                 !.within = is_within_tolerance(ev.expected_time, ev.actual_time,
                                                ev.tolerance_minutes)]
    /\ UNCHANGED <<serviceVars, clock, monolithVars, last,
                   schedulerVars, alertVars, queryVars>>

NextTolerance == CheckTolerance

SpecTolerance == InitTolerance /\ [][NextTolerance]_vars

\* The actual timestamp lies in the closed window of tolerance_minutes
\* around the expected time of day of the judged day d.
InWindowOf(d, expected, actual_time, tolerance_minutes) ==
    LET expected_dt == d * MinutesPerDay + expected.hour * 60 + expected.minute
    IN  /\ expected_dt - tolerance_minutes <= Minutes(actual_time)
        /\ Minutes(actual_time) <= expected_dt + tolerance_minutes

\* C20: is_within_tolerance is true exactly when the expected time parses
\* and the actual timestamp lies in the closed window around the expected
\* time of day of the day it is judged for, which for a window that crosses
\* midnight is the day before or after the calendar day of the timestamp
\* (expected 23:50, tolerance 30, actual 00:05 of the following day: inside).
C20_ClosedWindowAcrossMidnight ==
    ev.checked
        => (ev.within
              <=> LET expected == parse_time_string(ev.expected_time)
                  IN  /\ ~expected.raised
                      /\ \E d \in {ev.actual_time.date - 1, ev.actual_time.date,
                                   ev.actual_time.date + 1} :
                            InWindowOf(d, expected, ev.actual_time, ev.tolerance_minutes))

(***************************************************************************)
(* SpecRequest: GET /api/feeds/{feed_name}/status (get_feed_status of      *)
(* main copy 2.py) over the monolith's table.                              *)
(***************************************************************************)
\* str.split(sep) for a one-character separator.
RECURSIVE split_by(_, _)
split_by(s, sep) ==
    IF \A i \in 1..Len(s) : s[i] # sep
    THEN <<s>>
    ELSE LET k == CHOOSE i \in 1..Len(s) :
                      s[i] = sep /\ \A j \in 1..(i - 1) : s[j] # sep
         IN  <<SubSeq(s, 1, k - 1)>> \o split_by(SubSeq(s, k + 1, Len(s)), sep)

is_leap(year) == year % 4 = 0 /\ (year % 100 # 0 \/ year % 400 = 0)

days_in_month(year, month) ==
    IF month = 2 THEN (IF is_leap(year) THEN 29 ELSE 28)
    ELSE IF month \in {4, 6, 9, 11} THEN 30 ELSE 31

RECURSIVE days_before_month(_, _)
days_before_month(year, month) ==
    IF month = 1 THEN 0
    ELSE days_before_month(year, month - 1) + days_in_month(year, month - 1)

\* date(year, month, day).toordinal(): 0001-01-01 is ordinal 1.
toordinal(year, month, day) ==
    LET y == year - 1
    IN  y * 365 + (y \div 4) - (y \div 100) + (y \div 400)
            + days_before_month(year, month) + day

\* datetime.strptime(s, '%Y-%m-%d').date(): four digits of year, one or two
\* of month and of day, valid as a date; otherwise ValueError.
strptime(s) ==
    LET parts == split_by(s, "-")
    IN  IF Len(parts) # 3
        THEN [raised |-> TRUE, date |-> 0]
        ELSE LET year == int(parts[1])
                 month == int(parts[2])
                 day == int(parts[3])
             IN  IF \/ Len(parts[1]) # 4 \/ year < 1
                    \/ Len(parts[2]) > 2 \/ month < 1 \/ month > 12
                    \/ Len(parts[3]) > 2 \/ day < 1
                 THEN [raised |-> TRUE, date |-> 0]
                 ELSE IF day > days_in_month(year, month)
                      THEN [raised |-> TRUE, date |-> 0]
                      ELSE [raised |-> FALSE, date |-> toordinal(year, month, day)]

\* The query parameter cob_date: absent (or empty), a Tuesday, a Saturday,
\* a month that does not exist, another format.
StrTuesday == <<"0", "0", "0", "1", "-", "0", "1", "-", "0", "2">>
StrSaturday == <<"0", "0", "0", "1", "-", "0", "1", "-", "0", "6">>
StrMonth13 == <<"0", "0", "0", "1", "-", "1", "3", "-", "0", "1">>
StrSlashes == <<"0", "1", "/", "0", "2", "/", "0", "0", "0", "1">>

CobDateParams == {<<>>, StrTuesday, StrSaturday, StrMonth13, StrSlashes}

\* The path parameter feed_name: a feed of the registry and a name that is
\* not in it.
FeedNameParams == {feeds_config[3].name, "Unknown Feed"}

\* next((f for f in monitor.feeds_config if f.name == feed_name), None):
\* the index of the first feed of that name, 0 for None.
find_feed(feed_name) ==
    IF \E i \in 1..Len(feeds_config) : feeds_config[i].name = feed_name
    THEN CHOOSE i \in 1..Len(feeds_config) :
             /\ feeds_config[i].name = feed_name
             /\ \A j \in 1..(i - 1) : feeds_config[j].name # feed_name
    ELSE 0

\* The handler for a raised HTTPException or other exception, lines 386-390:
\* ValueError is answered 400; every other Exception, an HTTPException
\* raised inside the try block included, is answered 500.
get_feed_status_except(raised) ==
    IF raised = "ValueError"
    THEN [status_code |-> 400, detail |-> "Invalid date format. Use YYYY-MM-DD"]
    ELSE [status_code |-> 500, detail |-> raised]

\* get_feed_status, lines 373-390: the answer, the table and the id counter.
get_feed_status(rows, seq, feed_name, cob_date, outcome, write_ok, now, today_) ==
    LET parsed == IF cob_date # <<>> THEN strptime(cob_date)
                  ELSE [raised |-> FALSE, date |-> today_ - 1]
        i == find_feed(feed_name)
    IN  IF parsed.raised
        THEN get_feed_status_except("ValueError") @@ [rows |-> rows, seq |-> seq]
        ELSE IF i = 0
             THEN get_feed_status_except("HTTPException(404, Feed not found)")
                      @@ [rows |-> rows, seq |-> seq]
             ELSE LET c == FeedMonitor_check_feed_status(rows, seq, feeds_config[i],
                               parsed.date, outcome, write_ok, now)
                  IN  [status_code |-> 200, detail |-> c.response.status,
                       rows |-> c.rows, seq |-> c.seq]

\* One request GET /api/feeds/{feed_name}/status?cob_date=...
GetFeedStatus ==
    /\ calls < MaxRequests
    /\ \E feed_name \in FeedNameParams, cob_date \in CobDateParams :
       \E outcome \in SweepOutcomes(feeds_config[3]), write_ok \in BOOLEAN :
         LET r == get_feed_status(demo_feed_status, demo_seq, feed_name, cob_date,
                                  outcome, write_ok, clock, today)
         IN  /\ outcome.raised # None => write_ok
             /\ demo_feed_status' = r.rows
             /\ demo_seq' = r.seq
             /\ summary' = [endpoint |-> "get_feed_status",
                            feed_name |-> feed_name,
                            cob_date |-> cob_date,
                            status_code |-> r.status_code,
                            detail |-> r.detail,
                            table_before |-> demo_feed_status,
                            table |-> r.rows]
    /\ calls' = calls + 1
    /\ clock' = clock + 1
    /\ UNCHANGED <<ev, feed_status, pc, frame, result, committed, today, sweep, sweeps,
                   last, schedulerVars, alertVars>>

InitRequest ==
    /\ ev = NoEval
    /\ clock = 0
    /\ ServiceIdle
    /\ MonolithIdle
    /\ last = NoUpsert
    /\ RestIdle

NextRequest == GetFeedStatus

SpecRequest == InitRequest /\ [][NextRequest]_vars

\* The cob_date of the request is given and is no date in YYYY-MM-DD.
Malformed(cob_date) == cob_date # <<>> /\ strptime(cob_date).raised

\* C23: a single-feed status request with a malformed cob_date is answered
\* 400, one for a feed name that is not in the registry 404 'Feed not
\* found', 500 is left to unexpected faults, and a request answered with an
\* error writes no status record.
C23_ErrorOutcomesDistinguished ==
    summary.endpoint = "get_feed_status"
        => LET malformed == Malformed(summary.cob_date)
               unknown == \A i \in 1..Len(feeds_config) :
                              feeds_config[i].name # summary.feed_name
           IN  /\ malformed => summary.status_code = 400
               /\ (~malformed /\ unknown)
                      => (summary.status_code = 404 /\ summary.detail = "Feed not found")
               /\ summary.status_code = 500 => (~malformed /\ ~unknown)
               /\ summary.status_code # 200 => summary.table = summary.table_before

====
